---- MODULE Spec2Model ----
(***************************************************************************)
(* Model of src/solution.cpp: the two range-mode resolvers                 *)
(* Solution::numOfSubarrays and SolutionOptimized::numOfSubarrays.         *)
(*                                                                         *)
(* A call walks the query batch; for each query it counts the values of    *)
(* nums[left..right] in a fresh unordered_map, scans the map's entries in  *)
(* the map's iteration order, and appends the selected answer.             *)
(*                                                                         *)
(* Indices are 0-based as in the source: nums[i] of the source is          *)
(* At(nums, i), query[0], query[1], query[2] are q[1], q[2], q[3].         *)
(*                                                                         *)
(* The iteration order of std::unordered_map is unspecified but, for one   *)
(* build, a fixed function of the insertions made into a fresh map.  The   *)
(* variable "order" reveals that function lazily: the first time an        *)
(* insertion history is iterated any permutation of its keys may be        *)
(* chosen, and the same history is iterated the same way ever after.       *)
(***************************************************************************)
EXTENDS Integers, Sequences, FiniteSets, TLC

\* ---------------------------------------------------------------- bounds
MaxLen == 3
MaxVal == 1
MaxThreshold == 3
MaxQueries == 2
MaxCalls == 2

\* the sentinel of line 23 / line 59
NoAnswer == -1

Values == -1..MaxVal

\* ------------------------------------------------------------- the state
VARIABLES
    nums,        \* the caller's array (parameter nums)
    queries,     \* the caller's batch (parameter queries)
    order,       \* iteration order of unordered_map, per insertion history
    callsLeft,   \* calls of Solution::numOfSubarrays the caller still makes
    log,         \* what Solution::numOfSubarrays returned, per batch
    pc, qi, left, right, threshold, i, freq, inserted,
    answer, maxFreq, it, result,
    o_callsLeft, \* calls of SolutionOptimized::numOfSubarrays still to make
    o_log,       \* what SolutionOptimized::numOfSubarrays returned
    o_pc, o_qi, o_left, o_right, o_threshold, o_i, o_freq, o_inserted,
    o_answer, o_maxFreq, o_it, o_result

inputs == <<nums, queries>>
svars == <<callsLeft, log, pc, qi, left, right, threshold, i, freq, inserted,
           answer, maxFreq, it, result>>
ovars == <<o_callsLeft, o_log, o_pc, o_qi, o_left, o_right, o_threshold, o_i,
           o_freq, o_inserted, o_answer, o_maxFreq, o_it, o_result>>
vars == <<inputs, order, svars, ovars>>

\* --------------------------------------------------------------- helpers
\* nums[i], 0-based
At(a, k) == a[k + 1]

InBounds(a, k) == 0 <= k /\ k < Len(a)

\* freq[v]++ on an unordered_map<int,int>: operator[] inserts v with 0
MapIncr(f, v) ==
    IF v \in DOMAIN f THEN [f EXCEPT ![v] = @ + 1] ELSE f @@ (v :> 1)

\* the keys of the map in the order they were first inserted
NoteInsert(f, hist, v) == IF v \in DOMAIN f THEN hist ELSE Append(hist, v)

Perms(S) ==
    {p \in [1..Cardinality(S) -> S] :
        \A a, b \in 1..Cardinality(S) : a # b => p[a] # p[b]}

Range(s) == {s[k] : k \in DOMAIN s}

\* the orders in which a map with this insertion history may be iterated
IterationOrders(hist) ==
    IF hist \in DOMAIN order THEN {order[hist]} ELSE Perms(Range(hist))

Remember(hist, p) ==
    IF hist \in DOMAIN order THEN order ELSE order @@ (hist :> p)

\* lines 27-29 without the threshold test of line 27
BetterNoThreshold(first, second, thr, ans, mx) ==
    \/ ans = NoAnswer
    \/ second > mx
    \/ (second = mx /\ first < ans)

\* lines 27-29 with the threshold test off by one
BetterOffByOne(first, second, thr, ans, mx) ==
    /\ second + 1 >= thr
    /\ \/ ans = NoAnswer
       \/ second > mx
       \/ (second = mx /\ first < ans)

\* the test of lines 27-29: does this entry replace the current answer?
Better(first, second, thr, ans, mx) ==
    /\ second >= thr
    /\ \/ ans = NoAnswer
       \/ second > mx
       \/ (second = mx /\ first < ans)

\* lines 63-65 with count >= maxFreq for count > maxFreq
O_BetterLastWins(val, count, thr, ans, mx) ==
    /\ count >= thr
    /\ \/ ans = NoAnswer
       \/ count >= mx
       \/ (count = mx /\ val < ans)

\* the test of lines 63-65
O_Better(val, count, thr, ans, mx) ==
    /\ count >= thr
    /\ \/ ans = NoAnswer
       \/ count > mx
       \/ (count = mx /\ val < ans)

\* ---------------------------------------------------------------- inputs
ValidQuery(n) ==
    {q \in (0..(n - 1)) \X (0..(n - 1)) \X (1..MaxThreshold) : q[1] <= q[2]}

\* queries that may break a precondition: an index one step outside the
\* array, left > right, threshold 0
AnyQuery(n) == ((-1)..n) \X ((-1)..n) \X (0..MaxThreshold)

Batches(Q) == UNION {[1..k -> Q] : k \in 0..MaxQueries}

Arrays == UNION {[1..n -> Values] : n \in 1..MaxLen}

IsValid(a, q) ==
    /\ 0 <= q[1] /\ q[1] <= q[2] /\ q[2] < Len(a)
    /\ q[3] >= 1

InitLocals ==
    /\ order = << >>
    /\ log = {}
    /\ pc = "idle" /\ qi = 0 /\ left = 0 /\ right = 0 /\ threshold = 0
    /\ i = 0 /\ freq = << >> /\ inserted = << >>
    /\ answer = 0 /\ maxFreq = 0 /\ it = << >> /\ result = << >>
    /\ o_log = {}
    /\ o_pc = "idle" /\ o_qi = 0 /\ o_left = 0 /\ o_right = 0
    /\ o_threshold = 0 /\ o_i = 0 /\ o_freq = << >> /\ o_inserted = << >>
    /\ o_answer = 0 /\ o_maxFreq = 0 /\ o_it = << >> /\ o_result = << >>

Init ==
    /\ nums \in Arrays
    /\ queries \in Batches(ValidQuery(Len(nums)))
    /\ callsLeft = MaxCalls
    /\ o_callsLeft = 0
    /\ InitLocals

\* ------------------------------------------- Solution::numOfSubarrays
\* lines 7-8 with a result vector that survives from call to call
CallKeepsResult ==
    /\ pc = "idle"
    /\ callsLeft > 0
    /\ callsLeft' = callsLeft - 1
    /\ qi' = 0
    /\ pc' = "loop"
    /\ UNCHANGED <<inputs, order, log, left, right, threshold, i, freq,
                   inserted, answer, maxFreq, it, result, ovars>>

\* lines 7-8: entry, vector<int> result
Call ==
    /\ pc = "idle"
    /\ callsLeft > 0
    /\ callsLeft' = callsLeft - 1
    /\ result' = << >>
    /\ qi' = 0
    /\ pc' = "loop"
    /\ UNCHANGED <<inputs, order, log, left, right, threshold, i, freq,
                   inserted, answer, maxFreq, it, ovars>>

\* lines 10-17 with the map declared outside the query loop
BeginQueryKeepsFreq ==
    /\ pc = "loop"
    /\ qi < Len(queries)
    /\ LET query == queries[qi + 1] IN
        /\ left' = query[1]
        /\ right' = query[2]
        /\ threshold' = query[3]
        /\ i' = query[1]
    /\ pc' = "count"
    /\ UNCHANGED <<inputs, order, callsLeft, log, qi, freq, inserted, answer,
                   maxFreq, it, result, ovars>>

\* lines 10-17: next query, its three fields, a fresh map, i = left
BeginQuery ==
    /\ pc = "loop"
    /\ qi < Len(queries)
    /\ LET query == queries[qi + 1] IN
        /\ left' = query[1]
        /\ right' = query[2]
        /\ threshold' = query[3]
        /\ i' = query[1]
    /\ freq' = << >>
    /\ inserted' = << >>
    /\ pc' = "count"
    /\ UNCHANGED <<inputs, order, callsLeft, log, qi, answer, maxFreq, it,
                   result, ovars>>

\* lines 17-19 with freq[nums[i]++]++ : the array is written
CountStepWritesNums ==
    /\ pc = "count"
    /\ i <= right
    /\ InBounds(nums, i)
    /\ freq' = MapIncr(freq, At(nums, i))
    /\ inserted' = NoteInsert(freq, inserted, At(nums, i))
    /\ nums' = [nums EXCEPT ![i + 1] = @ + 1]
    /\ i' = i + 1
    /\ UNCHANGED <<queries, order, callsLeft, log, pc, qi, left, right,
                   threshold, answer, maxFreq, it, result, ovars>>

\* lines 17-19: one iteration of the counting loop
CountStep ==
    /\ pc = "count"
    /\ i <= right
    /\ InBounds(nums, i)
    /\ freq' = MapIncr(freq, At(nums, i))
    /\ inserted' = NoteInsert(freq, inserted, At(nums, i))
    /\ i' = i + 1
    /\ UNCHANGED <<inputs, order, callsLeft, log, pc, qi, left, right,
                   threshold, answer, maxFreq, it, result, ovars>>

\* lines 23-26: answer = -1, maxFreq = 0, freq.begin()
InitScan ==
    /\ pc = "count"
    /\ i > right
    /\ answer' = NoAnswer
    /\ maxFreq' = 0
    /\ \E p \in IterationOrders(inserted) :
        /\ it' = p
        /\ order' = Remember(inserted, p)
    /\ pc' = "scan"
    /\ UNCHANGED <<inputs, callsLeft, log, qi, left, right, threshold, i,
                   freq, inserted, result, ovars>>

\* lines 26-34: one entry of the map
ScanStep ==
    /\ pc = "scan"
    /\ it # << >>
    /\ LET first == Head(it)
           second == freq[Head(it)]
       IN  IF Better(first, second, threshold, answer, maxFreq)
           THEN answer' = first /\ maxFreq' = second
           ELSE UNCHANGED <<answer, maxFreq>>
    /\ it' = Tail(it)
    /\ UNCHANGED <<inputs, order, callsLeft, log, pc, qi, left, right,
                   threshold, i, freq, inserted, result, ovars>>

\* line 36 guarded by if (answer != -1)
PushBackSkipsSentinel ==
    /\ pc = "scan"
    /\ it = << >>
    /\ result' = IF answer = NoAnswer THEN result ELSE Append(result, answer)
    /\ qi' = qi + 1
    /\ pc' = "loop"
    /\ UNCHANGED <<inputs, order, callsLeft, log, left, right, threshold, i,
                   freq, inserted, answer, maxFreq, it, ovars>>

\* line 36: result.push_back(answer)
PushBack ==
    /\ pc = "scan"
    /\ it = << >>
    /\ result' = Append(result, answer)
    /\ qi' = qi + 1
    /\ pc' = "loop"
    /\ UNCHANGED <<inputs, order, callsLeft, log, left, right, threshold, i,
                   freq, inserted, answer, maxFreq, it, ovars>>

\* line 39: return result
Return ==
    /\ pc = "loop"
    /\ qi >= Len(queries)
    /\ log' = log \cup {[batch |-> queries, result |-> result]}
    /\ pc' = "idle"
    /\ UNCHANGED <<inputs, order, callsLeft, qi, left, right, threshold, i,
                   freq, inserted, answer, maxFreq, it, result, ovars>>

\* between two calls the caller narrows its batch to one of its queries
Rebatch ==
    /\ pc = "idle"
    /\ callsLeft > 0
    /\ log # {}
    /\ Len(queries) > 1
    /\ \E k \in 1..Len(queries) : queries' = <<queries[k]>>
    /\ UNCHANGED <<nums, order, svars, ovars>>

Next ==
    \/ Call
    \/ BeginQuery
    \/ CountStep
    \/ InitScan
    \/ ScanStep
    \/ PushBack
    \/ Return
    \/ Rebatch

Spec == Init /\ [][Next]_vars

\* ------------------------------------ SolutionOptimized::numOfSubarrays
\* lines 46-47
O_Call ==
    /\ o_pc = "idle"
    /\ o_callsLeft > 0
    /\ o_callsLeft' = o_callsLeft - 1
    /\ o_result' = << >>
    /\ o_qi' = 0
    /\ o_pc' = "loop"
    /\ UNCHANGED <<inputs, order, svars, o_log, o_left, o_right, o_threshold,
                   o_i, o_freq, o_inserted, o_answer, o_maxFreq, o_it>>

\* lines 49-55
O_BeginQuery ==
    /\ o_pc = "loop"
    /\ o_qi < Len(queries)
    /\ LET query == queries[o_qi + 1] IN
        /\ o_left' = query[1]
        /\ o_right' = query[2]
        /\ o_threshold' = query[3]
        /\ o_i' = query[1]
    /\ o_freq' = << >>
    /\ o_inserted' = << >>
    /\ o_pc' = "count"
    /\ UNCHANGED <<inputs, order, svars, o_callsLeft, o_log, o_qi, o_answer,
                   o_maxFreq, o_it, o_result>>

\* lines 55-57
O_CountStep ==
    /\ o_pc = "count"
    /\ o_i <= o_right
    /\ InBounds(nums, o_i)
    /\ o_freq' = MapIncr(o_freq, At(nums, o_i))
    /\ o_inserted' = NoteInsert(o_freq, o_inserted, At(nums, o_i))
    /\ o_i' = o_i + 1
    /\ UNCHANGED <<inputs, order, svars, o_callsLeft, o_log, o_pc, o_qi,
                   o_left, o_right, o_threshold, o_answer, o_maxFreq, o_it,
                   o_result>>

\* lines 59-62
O_InitScan ==
    /\ o_pc = "count"
    /\ o_i > o_right
    /\ o_answer' = NoAnswer
    /\ o_maxFreq' = 0
    /\ \E p \in IterationOrders(o_inserted) :
        /\ o_it' = p
        /\ order' = Remember(o_inserted, p)
    /\ o_pc' = "scan"
    /\ UNCHANGED <<inputs, svars, o_callsLeft, o_log, o_qi, o_left, o_right,
                   o_threshold, o_i, o_freq, o_inserted, o_result>>

\* lines 62-70: one structured binding [val, count]
O_ScanStep ==
    /\ o_pc = "scan"
    /\ o_it # << >>
    /\ LET val == Head(o_it)
           count == o_freq[Head(o_it)]
       IN  IF O_Better(val, count, o_threshold, o_answer, o_maxFreq)
           THEN o_answer' = val /\ o_maxFreq' = count
           ELSE UNCHANGED <<o_answer, o_maxFreq>>
    /\ o_it' = Tail(o_it)
    /\ UNCHANGED <<inputs, order, svars, o_callsLeft, o_log, o_pc, o_qi,
                   o_left, o_right, o_threshold, o_i, o_freq, o_inserted,
                   o_result>>

\* line 72
O_PushBack ==
    /\ o_pc = "scan"
    /\ o_it = << >>
    /\ o_result' = Append(o_result, o_answer)
    /\ o_qi' = o_qi + 1
    /\ o_pc' = "loop"
    /\ UNCHANGED <<inputs, order, svars, o_callsLeft, o_log, o_left, o_right,
                   o_threshold, o_i, o_freq, o_inserted, o_answer, o_maxFreq,
                   o_it>>

\* line 75
O_Return ==
    /\ o_pc = "loop"
    /\ o_qi >= Len(queries)
    /\ o_log' = o_log \cup {[batch |-> queries, result |-> o_result]}
    /\ o_pc' = "idle"
    /\ UNCHANGED <<inputs, order, svars, o_callsLeft, o_qi, o_left, o_right,
                   o_threshold, o_i, o_freq, o_inserted, o_answer, o_maxFreq,
                   o_it, o_result>>

\* both classes called once each on the same array and batch
PairInit ==
    /\ nums \in Arrays
    /\ queries \in Batches(ValidQuery(Len(nums)))
    /\ callsLeft = 1
    /\ o_callsLeft = 1
    /\ InitLocals

PairNext ==
    \/ Call
    \/ BeginQuery
    \/ CountStep
    \/ InitScan
    \/ ScanStep
    \/ PushBack
    \/ Return
    \/ O_Call
    \/ O_BeginQuery
    \/ O_CountStep
    \/ O_InitScan
    \/ O_ScanStep
    \/ O_PushBack
    \/ O_Return

SpecPair == PairInit /\ [][PairNext]_vars

\* ------------------------------------------- precondition violations
\* lines 17-18 with i outside nums: the read is undefined behaviour; the
\* build either faults or reads some int
CountStepOutOfBounds ==
    /\ pc = "count"
    /\ i <= right
    /\ ~InBounds(nums, i)
    /\ \/ /\ pc' = "crashed"
          /\ UNCHANGED <<freq, inserted, i>>
       \/ \E v \in Values :
            /\ freq' = MapIncr(freq, v)
            /\ inserted' = NoteInsert(freq, inserted, v)
            /\ i' = i + 1
            /\ pc' = pc
    /\ UNCHANGED <<inputs, order, callsLeft, log, qi, left, right, threshold,
                   answer, maxFreq, it, result, ovars>>

\* one call on a batch in which one query may break a precondition
InvalidBatches(n) ==
    {b \in Batches(AnyQuery(n)) :
        Cardinality({k \in DOMAIN b : b[k] \notin ValidQuery(n)}) = 1}

InvalidInit ==
    /\ nums \in Arrays
    /\ queries \in InvalidBatches(Len(nums))
    /\ callsLeft = 1
    /\ o_callsLeft = 0
    /\ InitLocals

InvalidNext ==
    \/ Call
    \/ BeginQuery
    \/ CountStep
    \/ CountStepOutOfBounds
    \/ InitScan
    \/ ScanStep
    \/ PushBack
    \/ Return

SpecInvalid == InvalidInit /\ [][InvalidNext]_vars

\* ------------------------------------------------------------ properties
\* occurrences of v in a[l..r]
Count(a, q, v) == Cardinality({k \in q[1]..q[2] : InBounds(a, k) /\ At(a, k) = v})

\* the frequency table of a query's range
Table(a, q) == [v \in Values |-> Count(a, q, v)]

\* v beats ans on query q: it qualifies and has a higher count, or an
\* equal count and a smaller value
Competitor(a, q, ans, v) ==
    /\ v # ans
    /\ Count(a, q, v) >= q[3]
    /\ \/ Count(a, q, v) > Count(a, q, ans)
       \/ (Count(a, q, v) = Count(a, q, ans) /\ v < ans)

\* C1: the answer returned for a query has no competitor in its range: no
\* other value qualifies with a higher count, or an equal count and a
\* smaller value -- for every array, arrays holding -1 included, and every
\* iteration order of the frequency table.
C1_NoCompetitor ==
    \A e \in log : \A k \in DOMAIN e.batch \cap DOMAIN e.result :
        \A v \in Values : ~Competitor(nums, e.batch[k], e.result[k], v)

\* C2: the answer does not depend on the order in which the frequency
\* table is iterated: two queries whose ranges have the same frequency
\* table and the same threshold get the same answer, however the two maps
\* were filled and iterated.
C2_OrderIndependent ==
    \A e, f \in log :
        \A j \in DOMAIN e.batch \cap DOMAIN e.result :
            \A k \in DOMAIN f.batch \cap DOMAIN f.result :
                (/\ Table(nums, e.batch[j]) = Table(nums, f.batch[k])
                 /\ e.batch[j][3] = f.batch[k][3])
                    => e.result[j] = f.result[k]

\* C3: an answer other than -1 occurs in array[left..right] and its true
\* count there is at least the threshold.
C3_AnswerQualifies ==
    \A e \in log : \A k \in DOMAIN e.batch \cap DOMAIN e.result :
        e.result[k] # NoAnswer =>
            /\ Count(nums, e.batch[k], e.result[k]) >= e.batch[k][3]
            /\ Count(nums, e.batch[k], e.result[k]) >= 1

C3_Witness ==
    \E e \in log : \E k \in DOMAIN e.result :
        /\ e.result[k] # NoAnswer
        /\ e.batch[k][3] >= 2

\* C4: when no value of the range occurs threshold times the answer is -1;
\* so a threshold above the range length gives -1, and left = right with
\* threshold 2 gives -1.
C4_NoneQualifiesSentinel ==
    \A e \in log : \A k \in DOMAIN e.batch \cap DOMAIN e.result :
        LET q == e.batch[k] IN
        /\ (\A v \in Values : Count(nums, q, v) < q[3])
                => e.result[k] = NoAnswer
        /\ q[3] > q[2] - q[1] + 1 => e.result[k] = NoAnswer

C4_Witness ==
    \E e \in log : \E k \in DOMAIN e.result :
        /\ e.batch[k][1] = e.batch[k][2]
        /\ e.batch[k][3] = 2
        /\ e.result[k] = NoAnswer

\* C5: the result has one element per query, in query order: while the
\* batch is walked the result holds one answer per query done, the step at
\* line 36 appends the answer of the query being processed, and what a
\* call returns is as long as its batch (empty for an empty batch).
C5_OnePerQuery ==
    /\ [](\A e \in log : Len(e.result) = Len(e.batch))
    /\ [](pc # "idle" => Len(result) = qi)
    /\ [][(pc = "scan" /\ it = << >>) =>
            /\ <<left, right, threshold>> = queries[qi + 1]
            /\ result' = Append(result, answer)
            /\ qi' = qi + 1]_vars

C5_Witness ==
    \E e \in log :
        /\ Len(e.batch) = 2
        /\ Len(e.result) = 2
        /\ e.result[1] = NoAnswer
        /\ e.result[2] # NoAnswer

\* C6: a call given a query that breaks a precondition does not return an
\* ordinary result for it: every batch a call returned a result for holds
\* valid queries only.
C6_InvalidRejected ==
    \A e \in log : \A k \in DOMAIN e.batch : IsValid(nums, e.batch[k])

\* C7: the answer stored for queries[i] is the answer of the one-query
\* batch [queries[i]], whatever precedes or follows it in the batch.
C7_QueryIndependent ==
    \A e, f \in log : \A k \in DOMAIN e.batch :
        f.batch = <<e.batch[k]>> =>
            /\ k \in DOMAIN e.result
            /\ f.result = <<e.result[k]>>

C7_Witness ==
    \E e, f \in log :
        /\ Len(e.batch) = 2
        /\ f.batch = <<e.batch[2]>>
        /\ e.batch[1] # e.batch[2]
        /\ f.result # <<NoAnswer>>

\* C8: no step of a call, its entry and its return included, changes the
\* array or the query list.
C8_InputsUnchanged ==
    [][(pc # "idle" \/ pc' # "idle") =>
            (nums' = nums /\ queries' = queries)]_vars

C8_Witness ==
    /\ pc = "idle"
    /\ \E e \in log : e.batch = queries /\ Len(queries) = 2

\* C9: a second call on the same array and batch returns the same result.
C9_SameResultAgain ==
    \A e, f \in log : e.batch = f.batch => e.result = f.result

C9_Witness ==
    /\ pc = "idle"
    /\ callsLeft = 0
    /\ Cardinality(log) = 1
    /\ \E e \in log : Len(e.batch) = 2 /\ e.result # <<NoAnswer, NoAnswer>>

====
